---- MODULE Spec2Model ----
(***************************************************************************)
(* The area/cost computation model of the PISES briefing generators:       *)
(*   - compute_scenario  (build_ambassador_deck.py)                        *)
(*   - cost_per_unit, usd, the unit table, the category fold and the       *)
(*     package pricing of build_workbook  (build_donor_pricing.py)         *)
(*                                                                         *)
(* The Python code computes in binary64 floating point and rounds with     *)
(* round() (half to even) and math.ceil.  The model keeps that arithmetic: *)
(* a float is a sign, an integer significand of at most 53 bits and a      *)
(* binary exponent, and every float operation is the exact result rounded  *)
(* to nearest, ties to even.  Significands do not fit the integers of the  *)
(* model checker, so they are kept as sequences of 14-bit limbs.           *)
(***************************************************************************)
EXTENDS Integers, Sequences, FiniteSets, TLC

----------------------------------------------------------------------------
(* Wide naturals: little-endian sequences of limbs in 0 .. LimbBase-1,     *)
(* without leading (most significant) zero limbs; <<>> is zero.            *)

LimbBase == 2 ^ 14

RECURSIVE NatNorm(_)
NatNorm(a) ==
    IF a = <<>> THEN a
    ELSE IF a[Len(a)] = 0 THEN NatNorm(SubSeq(a, 1, Len(a) - 1)) ELSE a

RECURSIVE NatFromInt(_)
NatFromInt(n) ==
    IF n = 0 THEN <<>> ELSE <<n % LimbBase>> \o NatFromInt(n \div LimbBase)

RECURSIVE NatToInt(_)
NatToInt(a) ==
    IF a = <<>> THEN 0 ELSE a[1] + LimbBase * NatToInt(Tail(a))

Limb(a, i) == IF i <= Len(a) THEN a[i] ELSE 0

RECURSIVE NatAddC(_, _, _, _)
NatAddC(a, b, i, c) ==
    IF i > Len(a) /\ i > Len(b)
    THEN (IF c = 0 THEN <<>> ELSE <<c>>)
    ELSE LET t == Limb(a, i) + Limb(b, i) + c
         IN  <<t % LimbBase>> \o NatAddC(a, b, i + 1, t \div LimbBase)

NatAdd(a, b) == NatAddC(a, b, 1, 0)

RECURSIVE NatSubB(_, _, _, _)
NatSubB(a, b, i, br) ==
    IF i > Len(a) THEN <<>>
    ELSE LET t == Limb(a, i) - Limb(b, i) - br
         IN  IF t < 0 THEN <<t + LimbBase>> \o NatSubB(a, b, i + 1, 1)
                      ELSE <<t>> \o NatSubB(a, b, i + 1, 0)

\* a - b for a >= b
NatSub(a, b) == NatNorm(NatSubB(a, b, 1, 0))

RECURSIVE NatCmpAt(_, _, _)
NatCmpAt(a, b, i) ==
    IF i = 0 THEN 0
    ELSE IF a[i] > b[i] THEN 1
    ELSE IF a[i] < b[i] THEN -1
    ELSE NatCmpAt(a, b, i - 1)

\* -1, 0, 1 as a < b, a = b, a > b
NatCmp(a, b) ==
    IF Len(a) > Len(b) THEN 1
    ELSE IF Len(a) < Len(b) THEN -1
    ELSE NatCmpAt(a, b, Len(a))

RECURSIVE NatMulSmallC(_, _, _, _)
NatMulSmallC(a, k, i, c) ==
    IF i > Len(a) THEN NatFromInt(c)
    ELSE LET t == a[i] * k + c
         IN  <<t % LimbBase>> \o NatMulSmallC(a, k, i + 1, t \div LimbBase)

\* a * k for 0 <= k < 2^17
NatMulSmall(a, k) == IF k = 0 THEN <<>> ELSE NatMulSmallC(a, k, 1, 0)

NatShiftLimb(a) == IF a = <<>> THEN a ELSE <<0>> \o a

RECURSIVE NatMul(_, _)
NatMul(a, b) ==
    IF b = <<>> \/ a = <<>> THEN <<>>
    ELSE NatAdd(NatMulSmall(a, b[1]), NatShiftLimb(NatMul(a, Tail(b))))

\* the quotient limb dg put above the quotient limbs of rest
NatDivPut(rest, dg) == <<rest[1] \o <<dg>>, rest[2]>>

\* <<limbs of a div d (not normalised), a mod d>> for 0 < d < 2^17
RECURSIVE NatDivStep(_, _, _, _)
NatDivStep(a, d, i, r) ==
    IF i = 0 THEN <<<<>>, r>>
    ELSE NatDivPut(NatDivStep(a, d, i - 1, (r * LimbBase + a[i]) % d),
                   (r * LimbBase + a[i]) \div d)

\* a div d for 0 < d < 2^17
NatDivSmall(a, d) == NatNorm(NatDivStep(a, d, Len(a), 0)[1])

\* 0 when a mod d = 0, else 1, for 0 < d < 2^17
NatModSmall(a, d) == IF NatDivStep(a, d, Len(a), 0)[2] = 0 THEN 0 ELSE 1

RECURSIVE IntBitLen(_)
IntBitLen(n) == IF n = 0 THEN 0 ELSE 1 + IntBitLen(n \div 2)

NatBitLen(a) ==
    IF a = <<>> THEN 0 ELSE 14 * (Len(a) - 1) + IntBitLen(a[Len(a)])

NatShl(a, k) ==
    IF a = <<>> THEN a
    ELSE [i \in 1 .. (k \div 14) |-> 0] \o NatMulSmall(a, 2 ^ (k % 14))

NatShr(a, k) ==
    IF k \div 14 >= Len(a) THEN <<>>
    ELSE NatDivSmall(SubSeq(a, k \div 14 + 1, Len(a)), 2 ^ (k % 14))

\* bit i (bit 0 the least significant) of a
NatBit(a, i) == (Limb(a, (i \div 14) + 1) \div (2 ^ (i % 14))) % 2

\* a mod 2^k = 0
NatLowZero(a, k) ==
    /\ \A i \in 1 .. (k \div 14) : Limb(a, i) = 0
    /\ Limb(a, k \div 14 + 1) % (2 ^ (k % 14)) = 0

RECURSIVE IntTz(_)
IntTz(n) == IF n % 2 = 0 THEN 1 + IntTz(n \div 2) ELSE 0

\* the number of trailing zero bits of a, for a > 0
RECURSIVE NatTz(_)
NatTz(a) == IF a[1] = 0 THEN 14 + NatTz(Tail(a)) ELSE IntTz(a[1])

----------------------------------------------------------------------------
(* Binary64 floats: [s |-> 1 or -1, m |-> wide natural below 2^53,         *)
(* e |-> exponent], the value s * m * 2^e.  The significand is not         *)
(* normalised: the floats of one value are compared with FCmp.             *)

FZero == [s |-> 1, m |-> <<>>, e |-> 0]

\* the rounded significand q1, renormalised when the carry made it 54 bits
FRoundPack(s, q1, e) ==
    IF NatBitLen(q1) > 53
    THEN [s |-> s, m |-> NatShr(q1, 1), e |-> e + 1]
    ELSE [s |-> s, m |-> q1, e |-> e]

\* m cut by sh bits to q and rounded to even on the guard and sticky bits
FRoundBy(s, m, e, sticky, sh, q) ==
    FRoundPack(s,
               IF /\ NatBit(m, sh - 1) = 1
                  /\ (sticky \/ ~NatLowZero(m, sh - 1) \/ NatBit(q, 0) = 1)
               THEN NatAdd(q, <<1>>) ELSE q,
               e + sh)

\* the float nearest to s * (m + f) * 2^e, 0 <= f < 1, sticky = (f > 0);
\* a sticky m has more than 54 bits
FRound(s, m, e, sticky) ==
    IF m = <<>> THEN FZero
    ELSE IF NatBitLen(m) <= 53 THEN [s |-> s, m |-> m, e |-> e]
    ELSE FRoundBy(s, m, e, sticky, NatBitLen(m) - 53,
                  NatShr(m, NatBitLen(m) - 53))

\* int -> float (exact below 2^31)
FromInt(n) ==
    IF n < 0 THEN [s |-> -1, m |-> NatFromInt(-n), e |-> 0]
             ELSE [s |-> 1, m |-> NatFromInt(n), e |-> 0]

\* x * y without rounding
ExactMul(x, y) == [s |-> x.s * y.s, m |-> NatMul(x.m, y.m), e |-> x.e + y.e]

\* x * y
FMul(x, y) == FRound(x.s * y.s, NatMul(x.m, y.m), x.e + y.e, FALSE)

\* the largest digit dg in lo .. hi with dg * t <= a (lo * t <= a)
RECURSIVE NatDigit(_, _, _, _)
NatDigit(a, t, lo, hi) ==
    IF lo = hi THEN lo
    ELSE IF NatCmp(NatMulSmall(t, (lo + hi + 1) \div 2), a) <= 0
         THEN NatDigit(a, t, (lo + hi + 1) \div 2, hi)
         ELSE NatDigit(a, t, lo, (lo + hi + 1) \div 2 - 1)

\* long division, limb j of the quotient and below: <<the j + 1 limbs of
\* a div b, 0 when a mod b = 0 else 1>>, for a < b * LimbBase^(j+1)
RECURSIVE NatDivWide(_, _, _)
RECURSIVE NatDivWideDigit(_, _, _, _, _)
NatDivWideDigit(a, b, j, t, dg) ==
    NatDivPut(NatDivWide(NatSub(a, NatMulSmall(t, dg)), b, j - 1), dg)
NatDivWide(a, b, j) ==
    IF j < 0 THEN <<<<>>, IF a = <<>> THEN 0 ELSE 1>>
    ELSE NatDivWideDigit(a, b, j, NatShl(b, 14 * j),
                         NatDigit(a, NatShl(b, 14 * j), 0, LimbBase - 1))

\* the quotient dr[1] with its inexact flag dr[2], rounded
FDivQuot(s, dr, e) == FRound(s, NatNorm(dr[1]), e, dr[2] # 0)

\* x / y with the dividend shifted to num = x.m * 2^sh
FDivWideBy(x, y, sh, num) ==
    FDivQuot(x.s * y.s, NatDivWide(num, y.m, Len(num) - Len(y.m)),
             x.e - sh - y.e)

\* the shift that takes the quotient x.m / y.m to 56 bits or more
FDivShift(x, y) ==
    IF 56 + NatBitLen(y.m) - NatBitLen(x.m) > 0
    THEN 56 + NatBitLen(y.m) - NatBitLen(x.m) ELSE 0

\* x / y for a divisor of 53 bits
FDivWide(x, y) == FDivWideBy(x, y, FDivShift(x, y), NatShl(x.m, FDivShift(x, y)))

\* x / y for a divisor y.m = d * 2^tz, with num = x.m * 2^72
FDivSmall(x, y, tz, d, num) ==
    FDivQuot(x.s * y.s, <<NatDivSmall(num, d), NatModSmall(num, d)>>,
             x.e - 72 - tz - y.e)

\* x / y for a divisor with tz trailing zero bits and the odd part od
FDivOdd(x, y, tz, od) ==
    IF Len(od) <= 2 /\ NatToInt(od) < 2 ^ 17
    THEN FDivSmall(x, y, tz, NatToInt(od), NatShl(x.m, 72))
    ELSE FDivWide(x, y)

\* x / y; a divisor whose odd part is below 2^17 (22, 25, 10, 15, 7000, 3,
\* 25000, 1e6, 52400, 3.75, powers of 10) is divided by limb by limb
FDiv(x, y) ==
    IF x.m = <<>> THEN FZero
    ELSE FDivOdd(x, y, NatTz(y.m), NatShr(y.m, NatTz(y.m)))

\* the smaller exponent of x and y
FMinExp(x, y) == IF x.e < y.e THEN x.e ELSE y.e

\* the sign of x - y for the significands a, b of x, y at one exponent
FCmpAligned(x, y, a, b) ==
    IF x.s = y.s THEN x.s * NatCmp(a, b)
    ELSE IF a = <<>> /\ b = <<>> THEN 0
    ELSE x.s

\* the sign of x - y: -1, 0, 1
FCmp(x, y) ==
    FCmpAligned(x, y, NatShl(x.m, x.e - FMinExp(x, y)),
                NatShl(y.m, y.e - FMinExp(x, y)))

\* x + y for the significands a, b of x, y at the exponent e0
FAddAligned(x, y, e0, a, b) ==
    IF x.s = y.s THEN FRound(x.s, NatAdd(a, b), e0, FALSE)
    ELSE IF NatCmp(a, b) = 0 THEN FZero
    ELSE IF NatCmp(a, b) > 0 THEN FRound(x.s, NatSub(a, b), e0, FALSE)
    ELSE FRound(y.s, NatSub(b, a), e0, FALSE)

\* x + y
FAdd(x, y) ==
    FAddAligned(x, y, FMinExp(x, y), NatShl(x.m, x.e - FMinExp(x, y)),
                NatShl(y.m, y.e - FMinExp(x, y)))

\* Python's max(x, y): y when y > x, else x
FMax(x, y) == IF FCmp(y, x) > 0 THEN y ELSE x

\* a decimal literal num/den (den a power of ten): the float nearest to it
Lit(num, den) == FDiv(FromInt(num), FromInt(den))

\* q moved to the even neighbour on a tie, to the nearer one otherwise
PyRoundUp(s, q, g, st) ==
    s * (IF g = 1 /\ (st \/ q % 2 = 1) THEN q + 1 ELSE q)

\* Python's round(x): the nearest integer, ties to the even one
PyRound(x) ==
    IF x.m = <<>> THEN 0
    ELSE IF x.e >= 0 THEN x.s * NatToInt(NatShl(x.m, x.e))
    ELSE PyRoundUp(x.s, NatToInt(NatShr(x.m, -x.e)), NatBit(x.m, -x.e - 1),
                   ~NatLowZero(x.m, -x.e - 1))

\* q moved up when a positive x has a fraction
PyCeilUp(s, q, frac) == IF s = 1 THEN (IF frac THEN q + 1 ELSE q) ELSE -q

\* Python's math.ceil(x)
PyCeil(x) ==
    IF x.m = <<>> THEN 0
    ELSE IF x.e >= 0 THEN x.s * NatToInt(NatShl(x.m, x.e))
    ELSE PyCeilUp(x.s, NatToInt(NatShr(x.m, -x.e)), ~NatLowZero(x.m, -x.e))

----------------------------------------------------------------------------
(* build_ambassador_deck.py: compute_scenario                              *)

Num(n) == FromInt(n)

\* the float literals of compute_scenario
F_0_152 == Lit(152, 1000)
F_0_311 == Lit(311, 1000)
F_0_390 == Lit(390, 1000)
F_1_08  == Lit(108, 100)
F_55_0  == Lit(550, 10)
F_43_12 == Lit(4312, 100)
F_0_85  == Lit(85, 100)
F_0_8   == Lit(8, 10)
F_1_45  == Lit(145, 100)
F_1_65  == Lit(165, 100)
F_1_55  == Lit(155, 100)
F_1e6   == FromInt(1000000)
F_7000  == FromInt(7000)

\* Share with the bug "ties rounded half up": floor(total * ratio + 0.5),
\* computed as -ceil(-total * ratio - 0.5)
ShareHalfUp(total, ratio) ==
    -PyCeil(FAdd(FMul(Num(-total), ratio), Lit(-5, 10)))

\* round(total * ratio)
Share(total, ratio) == PyRound(FMul(Num(total), ratio))

\* Students with the bug "Secondary rounded from its own 14.7% share"
StudentsAllRounded(total) ==
    [ey |-> Share(total, F_0_152), pri |-> Share(total, F_0_311),
     inter |-> Share(total, F_0_390), sec |-> Share(total, Lit(147, 1000))]

\* Students with the bug "Primary and Intermediate ratios swapped"
StudentsSwapped(total) ==
    LET ey    == Share(total, F_0_152)
        pri   == Share(total, F_0_390)
        inter == Share(total, F_0_311)
    IN  [ey |-> ey, pri |-> pri, inter |-> inter,
         sec |-> total - ey - pri - inter]

\* Students with the bug "shares rounded up (math.ceil) instead of round"
StudentsCeiled(total) ==
    LET ey    == PyCeil(FMul(Num(total), F_0_152))
        pri   == PyCeil(FMul(Num(total), F_0_311))
        inter == PyCeil(FMul(Num(total), F_0_390))
    IN  [ey |-> ey, pri |-> pri, inter |-> inter,
         sec |-> total - ey - pri - inter]

\* ey, pri, inter, sec
Students(total) ==
    LET ey    == Share(total, F_0_152)
        pri   == Share(total, F_0_311)
        inter == Share(total, F_0_390)
    IN  [ey |-> ey, pri |-> pri, inter |-> inter,
         sec |-> total - ey - pri - inter]

\* Classrooms with the bug "8% buffer left out"
ClassroomsNoBuffer(n, cap) == PyCeil(FDiv(Num(n), Num(cap)))

\* Classrooms with the bug "round instead of math.ceil"
ClassroomsRounded(n, cap) == PyRound(FMul(FDiv(Num(n), Num(cap)), F_1_08))

\* math.ceil(n / cap * 1.08)
Classrooms(n, cap) == PyCeil(FMul(FDiv(Num(n), Num(cap)), F_1_08))

\* ey_cls * 55.0 + pri_cls * 43.12 + inter_cls * 43.12 + sec_cls * 43.12
TeachingNet(ey_cls, pri_cls, inter_cls, sec_cls) ==
    FAdd(FAdd(FAdd(FMul(Num(ey_cls), F_55_0),
                   FMul(Num(pri_cls), F_43_12)),
              FMul(Num(inter_cls), F_43_12)),
         FMul(Num(sec_cls), F_43_12))

\* math.ceil(cls / per) * 2
LabCount(cls, per) == PyCeil(FDiv(Num(cls), Num(per))) * 2

\* total / 7000
Scale(total) == FDiv(Num(total), F_7000)

\* round(base * scale)
Scaled(base, scale) == PyRound(FMul(Num(base), scale))

\* ScaledFloored with the bug "the floor is not applied"
ScaledUnfloored(base, scale, floor) == PyRound(FMul(Num(base), scale))

\* round(base * max(scale, floor))
ScaledFloored(base, scale, floor) == PyRound(FMul(Num(base), FMax(scale, floor)))

\* TotalNet with the bug "ict_net left out of the sum"
TotalNetNoIct(teaching_net, labs_net, ict_net, sen_net, admin_net, staff_net, it_ops_net, food_net, sports_net, audit_commons_net) ==
    FAdd(FAdd(FAdd(FAdd(FAdd(FAdd(FAdd(FAdd(
        teaching_net, Num(labs_net)), Num(sen_net)),
        Num(admin_net)), Num(staff_net)), Num(it_ops_net)), Num(food_net)),
        Num(sports_net)), Num(audit_commons_net))

\* teaching_net + labs_net + ict_net + sen_net + admin_net + staff_net
\* + it_ops_net + food_net + sports_net + audit_commons_net
TotalNet(teaching_net, labs_net, ict_net, sen_net, admin_net, staff_net, it_ops_net, food_net, sports_net, audit_commons_net) ==
    FAdd(FAdd(FAdd(FAdd(FAdd(FAdd(FAdd(FAdd(FAdd(
        teaching_net, Num(labs_net)), Num(ict_net)), Num(sen_net)),
        Num(admin_net)), Num(staff_net)), Num(it_ops_net)), Num(food_net)),
        Num(sports_net)), Num(audit_commons_net))

\* (teaching_net + labs_net + ict_net + sen_net + admin_net + staff_net) * 1.45
AcademicGross(teaching_net, labs_net, ict_net, sen_net, admin_net, staff_net) ==
    FMul(FAdd(FAdd(FAdd(FAdd(FAdd(
        teaching_net, Num(labs_net)), Num(ict_net)), Num(sen_net)),
        Num(admin_net)), Num(staff_net)), F_1_45)

\* (food_net + sports_net + audit_commons_net) * 1.65
HighServiceGross(food_net, sports_net, audit_commons_net) ==
    FMul(Num(food_net + sports_net + audit_commons_net), F_1_65)

\* it_ops_net * 1.55
OpsGross(it_ops_net) == FMul(Num(it_ops_net), F_1_55)

\* TotalGross with the bug "operations gross left out of the sum"
TotalGrossNoOps(academic_gross, high_service_gross, ops_gross) ==
    FAdd(academic_gross, high_service_gross)

\* TotalGross with the bug "one blended factor, 1.45, for all categories"
TotalGrossUniform(academic_gross, high_service_gross, ops_gross) ==
    FAdd(FAdd(academic_gross, FMul(high_service_gross, Lit(145, 165))),
         FMul(ops_gross, Lit(145, 155)))

\* academic_gross + high_service_gross + ops_gross
TotalGross(academic_gross, high_service_gross, ops_gross) ==
    FAdd(FAdd(academic_gross, high_service_gross), ops_gross)

\* CostMillions with the bug "math.ceil instead of round"
CostMillionsCeiled(total_gross, rate) ==
    PyCeil(FDiv(FMul(total_gross, Num(rate)), F_1e6))

\* round(total_gross * rate / 1e6)
CostMillions(total_gross, rate) ==
    PyRound(FDiv(FMul(total_gross, Num(rate)), F_1e6))

\* round(total_gross / 3)
Footprint(total_gross) == PyRound(FDiv(total_gross, Num(3)))

\* round(footprint / 25000 * 100)
Coverage(footprint) ==
    PyRound(FMul(FDiv(Num(footprint), Num(25000)), Num(100)))

\* cost_data, row "Mid-Institutional (Adopted Baseline)": "240-260M"
BaselineRange == [low |-> 240, high |-> 260]

\* cls_data, row "Science + ICT Labs" of a scenario dict s:
\* math.ceil((pri_cls + inter_cls + sec_cls) / 10) * 2
\* + math.ceil((pri_cls + inter_cls + sec_cls) / 15) * 2
LabRooms(s) ==
    LabCount(s.pri_cls + s.inter_cls + s.sec_cls, 10)
    + LabCount(s.pri_cls + s.inter_cls + s.sec_cls, 15)

\* the dict compute_scenario returns
ScenarioResult(v) ==
    [ey |-> v.ey, pri |-> v.pri, inter |-> v.inter, sec |-> v.sec,
     ey_cls |-> v.ey_cls, pri_cls |-> v.pri_cls, inter_cls |-> v.inter_cls,
     sec_cls |-> v.sec_cls, total_cls |-> v.total_cls,
     teaching_net |-> PyRound(v.teaching_net),
     labs_net |-> v.labs_net + v.ict_net,
     support_net |-> v.sen_net + v.admin_net + v.staff_net + v.it_ops_net,
     shared_net |-> v.food_net + v.sports_net + v.audit_commons_net,
     total_net |-> PyRound(v.total_net),
     total_gross |-> PyRound(v.total_gross),
     footprint |-> v.footprint, coverage |-> v.coverage,
     cost_low |-> v.cost_low, cost_high |-> v.cost_high]

----------------------------------------------------------------------------
(* build_donor_pricing.py: constants, cost_per_unit, usd, UNITS, PACKAGES  *)

\* Python's None, and a value that is not None
None == <<>>
Some(x) == <<x>>

\* Python's truth value of a name that may be None: None and "" are false
Truthy(o) == o # None /\ o[1] # ""

TOTAL_COST_SAR == 250000000
TOTAL_BUA == 52400
COST_PER_BUA_M2 == FDiv(Num(TOTAL_COST_SAR), Num(TOTAL_BUA))
SAR_TO_USD == FDiv(Num(1), Lit(375, 100))

GF_ACADEMIC == Lit(145, 100)
GF_HIGH_SERVICE == Lit(165, 100)
GF_OPERATIONS == Lit(155, 100)

\* the integer part of x, as Python's int(x)
PyTrunc(x) ==
    IF x.m = <<>> THEN 0
    ELSE IF x.e >= 0 THEN x.s * NatToInt(NatShl(x.m, x.e))
    ELSE x.s * NatToInt(NatShr(x.m, -x.e))

\* cost_per_unit with the bug "int() instead of round()"
cost_per_unit_truncated(net_m2, grossing_factor) ==
    PyTrunc(FMul(FMul(net_m2, grossing_factor), COST_PER_BUA_M2))

\* bua = net_m2 * grossing_factor; round(bua * COST_PER_BUA_M2)
cost_per_unit(net_m2, grossing_factor) ==
    PyRound(FMul(FMul(net_m2, grossing_factor), COST_PER_BUA_M2))

\* usd with the bug "int() instead of round()"
usd_truncated(sar) == PyTrunc(FMul(Num(sar), SAR_TO_USD))

\* round(sar * SAR_TO_USD)
usd(sar) == PyRound(FMul(Num(sar), SAR_TO_USD))

\* An entry of UNITS: (unit_name, description, qty, net_m2, grossing_factor,
\* students_served_note).  The description and the note are text that only
\* the cells show and are left out.  A category header row has qty None.
Marker(name) == [name |-> name, qty |-> None, net_m2 |-> None, gf |-> None]
Unit(name, qty, net_m2, gf) ==
    [name |-> name, qty |-> Some(qty), net_m2 |-> Some(net_m2), gf |-> Some(gf)]

\* An item of PACKAGES with the name of its tier:
\* (pkg_name, pkg_desc, ref_unit, ref_qty); the tiers are walked in order,
\* so the nested lists are kept as one list.
Package(tier_name, pkg_name, ref_unit, ref_qty) ==
    [tier_name |-> tier_name, pkg_name |-> pkg_name,
     ref_unit |-> ref_unit, ref_qty |-> ref_qty]

\* tier_range of a tier of PACKAGES, in SAR: "SAR 50K - 500K",
\* "SAR 500K - 5M", "SAR 5M+" (no upper end)
TierRange(tier_name) ==
    CASE tier_name = "INDIVIDUAL IMPACT GIFTS" -> [lo |-> 50000, hi |-> Some(500000)]
      [] tier_name = "MAJOR GIFTS" -> [lo |-> 500000, hi |-> Some(5000000)]
      [] tier_name = "LANDMARK GIFTS" -> [lo |-> 5000000, hi |-> None]

\* (the en dash of "Grades 1-12" is written as a hyphen)
UNITS == <<
    Marker("CLASSROOMS & TEACHING SPACES"),
    Unit("Standard Classroom (Grades 1-12)", 249, Lit(4312, 100), GF_ACADEMIC),
    Unit("Kindergarten Classroom", 26, Lit(625, 10), GF_ACADEMIC),
    Unit("Nursery Activity Room", 9, Lit(450, 10), GF_ACADEMIC),
    Unit("Nursery Bedroom / Rest Room", 9, Lit(225, 10), GF_ACADEMIC),
    Unit("Reception Classroom", 20, Lit(625, 10), GF_ACADEMIC),
    Unit("Early Years Learning Commons", 3, Lit(1200, 10), GF_ACADEMIC),
    Unit("Primary Multi-Purpose Room", 4, Lit(425, 10), GF_ACADEMIC),
    Marker("SCIENCE LABORATORIES"),
    Unit("Primary Science Lab", 13, Lit(601, 10), GF_HIGH_SERVICE),
    Unit("Intermediate Science Lab", 7, Lit(6296, 100), GF_HIGH_SERVICE),
    Unit("Secondary Science Lab (Physics / Chemistry / Biology)", 12, Lit(699, 10), GF_HIGH_SERVICE),
    Unit("Science Prep Room", 6, Lit(180, 10), GF_HIGH_SERVICE),
    Unit("Chemical Storage Room", 2, Lit(120, 10), GF_HIGH_SERVICE),
    Marker("COMPUTER & ICT LABS"),
    Unit("Primary Computer / Language Lab", 6, Lit(601, 10), GF_HIGH_SERVICE),
    Unit("Secondary Computer / Language Lab", 10, Lit(699, 10), GF_HIGH_SERVICE),
    Marker("SPECIALIST STUDIOS & MAKER SPACES"),
    Unit("Maker / Robotics Lab", 2, Lit(1200, 10), GF_HIGH_SERVICE),
    Unit("Art Studio", 2, Lit(900, 10), GF_HIGH_SERVICE),
    Unit("Primary Art Atelier", 4, Lit(419, 10), GF_ACADEMIC),
    Unit("Music / Drama Room", 2, Lit(800, 10), GF_HIGH_SERVICE),
    Marker("LIBRARIES & LEARNING RESOURCE CENTRES"),
    Unit("Primary Library / LRC", 2, Lit(751, 10), GF_ACADEMIC),
    Unit("Intermediate LRC", 2, Lit(747, 10), GF_ACADEMIC),
    Unit("Secondary LRC", 2, Lit(886, 10), GF_ACADEMIC),
    Marker("SPORTS & PHYSICAL EDUCATION"),
    Unit("Indoor Multi-Purpose Sports Hall", 2, Lit(9000, 10), GF_HIGH_SERVICE),
    Unit("25m Swimming Pool Complex", 1, Lit(17170, 10), GF_HIGH_SERVICE),
    Unit("Sports Changing & Shower Room", 4, Lit(1600, 10), GF_HIGH_SERVICE),
    Unit("Sports Storage Room", 4, Lit(250, 10), GF_HIGH_SERVICE),
    Unit("Outdoor Multi-Sport Court", 6, Lit(4500, 10), GF_HIGH_SERVICE),
    Marker("DINING & FOOD SERVICES"),
    Unit("Dining Hall (700-seat, multi-shift)", 2, Lit(11000, 10), GF_HIGH_SERVICE),
    Unit("Commercial Kitchen & Prep Area", 2, Lit(3000, 10), GF_HIGH_SERVICE),
    Unit("Cold Room / Dry Store", 4, Lit(375, 10), GF_OPERATIONS),
    Marker("AUDITORIUM & ASSEMBLY SPACES"),
    Unit("Auditorium (300 seats)", 1, Lit(7400, 10), GF_HIGH_SERVICE),
    Unit("Atrium / Learning Commons", 1, Lit(20000, 10), GF_HIGH_SERVICE),
    Unit("Seminar Room", 4, Lit(450, 10), GF_ACADEMIC),
    Unit("Breakout Room (Glass-walled)", 8, Lit(250, 10), GF_ACADEMIC),
    Marker("EXAM CENTRE"),
    Unit("Exam Hall (300 candidates)", 1, Lit(7500, 10), GF_ACADEMIC),
    Unit("Candidate Holding Room", 2, Lit(600, 10), GF_ACADEMIC),
    Marker("SEN & STUDENT WELLBEING"),
    Unit("SEN Resource Room (Small Group)", 10, Lit(250, 10), GF_ACADEMIC),
    Unit("1:1 Assessment Room", 8, Lit(120, 10), GF_ACADEMIC),
    Unit("Speech & Language Therapy Room", 4, Lit(160, 10), GF_ACADEMIC),
    Unit("Occupational Therapy Room", 2, Lit(200, 10), GF_ACADEMIC),
    Unit("Sensory Room", 2, Lit(240, 10), GF_ACADEMIC),
    Unit("Counsellor Room", 4, Lit(120, 10), GF_ACADEMIC),
    Unit("Medical Clinic / Nurse Room", 2, Lit(200, 10), GF_ACADEMIC),
    Unit("Isolation / Rest Room (Medical)", 2, Lit(100, 10), GF_ACADEMIC),
    Marker("STAFF & PROFESSIONAL DEVELOPMENT"),
    Unit("Staff Workroom (Distributed)", 12, Lit(450, 10), GF_ACADEMIC),
    Unit("Staff Lounge", 2, Lit(900, 10), GF_ACADEMIC),
    Unit("Teacher Training / PD Room", 2, Lit(450, 10), GF_ACADEMIC),
    Marker("ADMINISTRATION & GOVERNANCE"),
    Unit("Reception & Welcome Desk", 2, Lit(250, 10), GF_ACADEMIC),
    Unit("Principal's Office", 1, Lit(200, 10), GF_ACADEMIC),
    Unit("Admissions Office", 2, Lit(180, 10), GF_ACADEMIC),
    Unit("Finance & Cashier Office", 2, Lit(400, 10), GF_ACADEMIC),
    Unit("Board / SMC Meeting Room", 1, Lit(300, 10), GF_ACADEMIC),
    Unit("School Store / Bookshop", 1, Lit(800, 10), GF_ACADEMIC),
    Unit("Uniform Shop", 1, Lit(600, 10), GF_ACADEMIC),
    Marker("IT INFRASTRUCTURE & SECURITY"),
    Unit("Server Room / MDF", 2, Lit(200, 10), GF_OPERATIONS),
    Unit("Main Security Control Room (CCTV)", 1, Lit(200, 10), GF_OPERATIONS),
    Unit("IT Helpdesk Office", 2, Lit(180, 10), GF_OPERATIONS),
    Marker("TRANSPORT & LOGISTICS"),
    Unit("Transport Office & Driver Lounge", 1, Lit(430, 10), GF_OPERATIONS),
    Marker("PRAYER & SPIRITUAL SPACES"),
    Unit("Prayer Room / Musalla", 4, Lit(600, 10), GF_ACADEMIC) >>

PACKAGES == <<
    Package("INDIVIDUAL IMPACT GIFTS", "Name a Classroom", Some("Standard Classroom (Grades 1-12)"), Some(1)),
    Package("INDIVIDUAL IMPACT GIFTS", "Equip a Science Lab", Some("Primary Science Lab"), Some(1)),
    Package("INDIVIDUAL IMPACT GIFTS", "Build a Sensory Room", Some("Sensory Room"), Some(1)),
    Package("INDIVIDUAL IMPACT GIFTS", "Sponsor a Library Corner", Some("Primary Library / LRC"), Some(1)),
    Package("INDIVIDUAL IMPACT GIFTS", "Create an Art Atelier", Some("Primary Art Atelier"), Some(1)),
    Package("MAJOR GIFTS", "Robotics Innovation Hub", Some("Maker / Robotics Lab"), Some(1)),
    Package("MAJOR GIFTS", "Auditorium Naming", Some("Auditorium (300 seats)"), Some(1)),
    Package("MAJOR GIFTS", "Sports Hall Sponsor", Some("Indoor Multi-Purpose Sports Hall"), Some(1)),
    Package("MAJOR GIFTS", "Dining Experience", Some("Dining Hall (700-seat, multi-shift)"), Some(1)),
    Package("MAJOR GIFTS", "Classroom Block (10 rooms)", Some("Standard Classroom (Grades 1-12)"), Some(10)),
    Package("LANDMARK GIFTS", "Swimming Pool Complex", Some("25m Swimming Pool Complex"), Some(1)),
    Package("LANDMARK GIFTS", "Exam Centre", None, None),
    Package("LANDMARK GIFTS", "Learning Commons & Atrium", Some("Atrium / Learning Commons"), Some(1)),
    Package("LANDMARK GIFTS", "Entire Early Years Wing", None, None),
    Package("LANDMARK GIFTS", "Complete SEN Suite", None, None) >>

\* Custom calculations, done between the unit sheet and the
\* package sheet
exam_centre_cost ==
    cost_per_unit(Num(750), GF_ACADEMIC)
    + 2 * cost_per_unit(Num(60), GF_ACADEMIC)
    + 2 * cost_per_unit(Num(25), GF_ACADEMIC)

ey_wing_cost ==
    9 * cost_per_unit(Num(45), GF_ACADEMIC)
    + 9 * cost_per_unit(Lit(225, 10), GF_ACADEMIC)
    + 20 * cost_per_unit(Lit(625, 10), GF_ACADEMIC)
    + 26 * cost_per_unit(Lit(625, 10), GF_ACADEMIC)
    + 3 * cost_per_unit(Num(120), GF_ACADEMIC)

sen_suite_cost ==
    10 * cost_per_unit(Num(25), GF_ACADEMIC)
    + 8 * cost_per_unit(Num(12), GF_ACADEMIC)
    + 4 * cost_per_unit(Num(16), GF_ACADEMIC)
    + 2 * cost_per_unit(Num(20), GF_ACADEMIC)
    + 2 * cost_per_unit(Num(24), GF_ACADEMIC)
    + 4 * cost_per_unit(Num(12), GF_ACADEMIC)
    + 2 * cost_per_unit(Num(20), GF_ACADEMIC)
    + 2 * cost_per_unit(Num(10), GF_ACADEMIC)

----------------------------------------------------------------------------
(* build_donor_pricing_deck.py: the data the deck carries                  *)

\* (name, unit_count, total_net_m2, total_cost_sar, pct_of_budget)
Category(name, unit_count, total_net_m2, total_cost_sar, pct_of_budget) ==
    [name |-> name, units |-> unit_count, net |-> total_net_m2,
     cost |-> total_cost_sar, pct |-> pct_of_budget]

CATEGORIES ==
    << Category("Classrooms & Teaching", 320, 14749, 102035420, Lit(393, 10)),
       Category("Science Laboratories", 40, 2193, 17262169, Lit(66, 10)),
       Category("Computer & ICT Labs", 16, 1060, 8341310, Lit(32, 10)),
       Category("Specialist Studios", 10, 748, 5725286, Lit(22, 10)),
       Category("Libraries & LRC", 6, 477, 3298472, Lit(13, 10)),
       Category("Sports & PE", 17, 6957, 54766460, Lit(211, 10)),
       Category("Dining & Food", 8, 2950, 23151240, Lit(89, 10)),
       Category("Auditorium & Assembly", 14, 3120, 24198469, Lit(93, 10)),
       Category("Exam Centre", 3, 870, 6018606, Lit(23, 10)),
       Category("SEN & Wellbeing", 34, 606, 4192264, Lit(16, 10)),
       Category("Staff & PD", 16, 810, 5603528, Lit(22, 10)),
       Category("Administration", 10, 356, 2462786, Lit(9, 10)),
       Category("IT & Security", 5, 96, 709925, Lit(3, 10)),
       Category("Transport", 1, 43, 317987, Lit(1, 10)),
       Category("Prayer Spaces", 4, 240, 1660304, Lit(6, 10)) >>

\* "TOP 5 CATEGORIES (82.6% of budget)"
Top5HeadlinePct == Lit(826, 10)

\* top5: (name, cost_str, pct_str, qty_str), with the position of the
\* category in CATEGORIES
top5 ==
    << [name |-> "Classrooms", pct |-> Lit(393, 10), category |-> 1],
       [name |-> "Sports & PE", pct |-> Lit(211, 10), category |-> 6],
       [name |-> "Auditorium", pct |-> Lit(93, 10), category |-> 8],
       [name |-> "Dining & Food", pct |-> Lit(89, 10), category |-> 7],
       [name |-> "Science Labs", pct |-> Lit(66, 10), category |-> 2] >>

GRAND_TOTAL_SAR == 259744226

GRAND_TOTAL_USD == 69265127

----------------------------------------------------------------------------
(* State                                                                   *)

VARIABLES
    \* build_ambassador_deck.py: one call of compute_scenario
    spc,              \* "idle", "call" (entered), "returned"
    total,            \* the argument
    v,                \* the local variables at the return statement
    ret,              \* the returned dict
    pending,          \* the totals the module still calls compute_scenario with
    scenarios,        \* dict: total -> result of the call (s5500, s6000, s7000)
    \* build_donor_pricing.py: one run of build_workbook
    wpc,              \* "idle", "sheet1", "sheet2", "sheet3", "summary", "done"
    units,            \* the catalog (UNITS)
    packages,         \* the package list (PACKAGES)
    i,                \* position of the running for loop, from 1
    item_num,
    unit_lookup,      \* dict: unit name -> unit_cost_sar, net_m2, qty
    grand_total_sar,
    rows,             \* the unit rows written to the "Unit Pricing" sheet
    pkg_rows,         \* the rows written to the "Donor Packages" sheet
    category_totals,  \* list of (name, units, net, cost)
    current_cat,
    cat_units,
    cat_net,
    cat_cost,
    overall_total,
    summary_rows,     \* the rows written to the category summary sheet
    summary_net,      \* the net area of its grand total row
    first_run         \* what an earlier run of build_workbook wrote, or None

svars == <<spc, total, v, ret, pending, scenarios>>
wlocals == <<item_num, unit_lookup, grand_total_sar, rows, pkg_rows>>
wfold == <<category_totals, current_cat, cat_units, cat_net, cat_cost>>
wsummary == <<overall_total, summary_rows, summary_net>>
wvars == <<wpc, units, packages, first_run, i, wlocals, wfold, wsummary>>
vars == <<svars, wvars>>

----------------------------------------------------------------------------
(* compute_scenario as a state machine                                     *)

\* bounds of the enrolment totals tried: -MaxNegative .. MaxTotal
MaxTotal == 7200
MaxNegative == 8
Totals == (0 - MaxNegative) .. MaxTotal

EmptyDict == [n \in {} |-> None]

DictSet(d, k, x) == [n \in DOMAIN d \cup {k} |-> IF n = k THEN x ELSE d[n]]

ScenarioIdle ==
    /\ spc = "idle" /\ total = 0 /\ v = None /\ ret = None
    /\ pending = <<>> /\ scenarios = EmptyDict

\* compute_scenario(total): the function has no branch and no loop, and
\* raises nothing for any int.  Each local variable is bound once, in the
\* order the code assigns it (\E x \in {e} binds x to the value of e); v'
\* holds the locals at the return statement.
ComputeScenario ==
    /\ spc = "call"
    /\ \E st \in {Students(total)} :
       \E ey_cls \in {Classrooms(st.ey, 22)},
          pri_cls \in {Classrooms(st.pri, 25)},
          inter_cls \in {Classrooms(st.inter, 25)},
          sec_cls \in {Classrooms(st.sec, 25)} :
       \E teaching_net \in {TeachingNet(ey_cls, pri_cls, inter_cls, sec_cls)},
          n_labs \in {LabCount(pri_cls + inter_cls + sec_cls, 10)},
          n_ict \in {LabCount(pri_cls + inter_cls + sec_cls, 15)},
          scale \in {Scale(total)} :
       \E labs_net \in {n_labs * 65},
          ict_net \in {n_ict * 65},
          sen_net \in {Scaled(736, scale)},
          admin_net \in {ScaledFloored(672, scale, F_0_85)},
          staff_net \in {Scaled(950, scale)},
          it_ops_net \in {ScaledFloored(641, scale, F_0_85)},
          food_net \in {Scaled(3380, scale)},
          sports_net \in {ScaledFloored(3981, scale, F_0_8)},
          audit_commons_net \in {ScaledFloored(4070, scale, F_0_8)} :
       \E total_net \in {TotalNet(teaching_net, labs_net, ict_net, sen_net, admin_net, staff_net, it_ops_net, food_net, sports_net, audit_commons_net)},
          academic_gross \in {AcademicGross(teaching_net, labs_net, ict_net, sen_net, admin_net, staff_net)},
          high_service_gross \in {HighServiceGross(food_net, sports_net, audit_commons_net)},
          ops_gross \in {OpsGross(it_ops_net)} :
       \E total_gross \in {TotalGross(academic_gross, high_service_gross, ops_gross)} :
       \E footprint \in {Footprint(total_gross)} :
          v' = [ey |-> st.ey, pri |-> st.pri, inter |-> st.inter, sec |-> st.sec,
                ey_cls |-> ey_cls, pri_cls |-> pri_cls, inter_cls |-> inter_cls,
                sec_cls |-> sec_cls,
                total_cls |-> ey_cls + pri_cls + inter_cls + sec_cls,
                teaching_net |-> teaching_net,
                n_labs |-> n_labs, labs_net |-> labs_net,
                n_ict |-> n_ict, ict_net |-> ict_net,
                scale |-> scale,
                sen_net |-> sen_net, admin_net |-> admin_net,
                staff_net |-> staff_net, it_ops_net |-> it_ops_net,
                food_net |-> food_net, sports_net |-> sports_net,
                audit_commons_net |-> audit_commons_net,
                total_net |-> total_net,
                academic_gross |-> academic_gross,
                high_service_gross |-> high_service_gross,
                ops_gross |-> ops_gross, total_gross |-> total_gross,
                cost_low |-> CostMillions(total_gross, 4580),
                cost_high |-> CostMillions(total_gross, 4960),
                footprint |-> footprint, coverage |-> Coverage(footprint)]
    /\ ret' = ScenarioResult(v')
    /\ spc' = "returned"
    /\ UNCHANGED <<total, pending, scenarios, wvars>>

\* module level, "s5500 = compute_scenario(5500)": the next call is entered
CallScenario ==
    /\ spc = "idle" /\ pending # <<>>
    /\ total' = Head(pending) /\ pending' = Tail(pending)
    /\ spc' = "call"
    /\ UNCHANGED <<v, ret, scenarios, wvars>>

\* module level: the returned dict is bound to its name; the locals are kept
\* beside it so that unrounded areas can be compared across scenarios
AssignScenario ==
    /\ spc = "returned"
    /\ scenarios' = DictSet(scenarios, total, [locals |-> v, result |-> ret])
    /\ spc' = "idle"
    /\ UNCHANGED <<total, v, ret, pending, wvars>>

----------------------------------------------------------------------------
(* build_workbook as a state machine: one action per loop iteration        *)

WorkbookIdle ==
    /\ wpc = "idle" /\ units = <<>> /\ packages = <<>> /\ i = 0
    /\ item_num = 0 /\ unit_lookup = EmptyDict /\ grand_total_sar = 0
    /\ rows = <<>> /\ pkg_rows = <<>>
    /\ category_totals = <<>> /\ current_cat = None
    /\ cat_units = 0 /\ cat_net = FZero /\ cat_cost = 0
    /\ overall_total = 0 /\ summary_rows = <<>> /\ summary_net = FZero
    /\ first_run = None

\* Sheet 1, "for entry in UNITS", a category header row: qty is None
Sheet1Header ==
    /\ wpc = "sheet1" /\ i <= Len(units)
    /\ units[i].qty = None
    /\ i' = i + 1
    /\ UNCHANGED <<svars, wpc, units, packages, first_run, wlocals, wfold, wsummary>>

\* Sheet 1, "for entry in UNITS", a unit row
Sheet1Unit ==
    /\ wpc = "sheet1" /\ i <= Len(units)
    /\ units[i].qty # None
    /\ LET name == units[i].name
           qty  == units[i].qty[1]
           net_m2 == units[i].net_m2[1]
           unit_cost_sar == cost_per_unit(net_m2, units[i].gf[1])
           total_sar == unit_cost_sar * qty
       IN  /\ item_num' = item_num + 1
           /\ grand_total_sar' = grand_total_sar + total_sar
           /\ unit_lookup' = DictSet(unit_lookup, name,
                  [unit_cost_sar |-> unit_cost_sar, net_m2 |-> net_m2, qty |-> qty])
           /\ rows' = Append(rows,
                  [item_num |-> item_num + 1, name |-> name, qty |-> qty,
                   unit_cost_sar |-> unit_cost_sar,
                   unit_cost_usd |-> usd(unit_cost_sar),
                   total_sar |-> total_sar, total_usd |-> usd(total_sar)])
    /\ i' = i + 1
    /\ UNCHANGED <<svars, wpc, units, packages, first_run, pkg_rows, wfold, wsummary>>

\* Sheet 1 is finished (the grand total row shows grand_total_sar); sheet 2 starts
Sheet1Done ==
    /\ wpc = "sheet1" /\ i > Len(units)
    /\ wpc' = "sheet2" /\ i' = 1
    /\ UNCHANGED <<svars, units, packages, first_run, wlocals, wfold, wsummary>>

\* the if / elif chain that prices one package
\* PackageCost with the bug "the catalog quantity of the entry is used"
PackageCostCatalogQty(p, lookup) ==
    IF Truthy(p.ref_unit) /\ p.ref_unit[1] \in DOMAIN lookup
    THEN lookup[p.ref_unit[1]].unit_cost_sar * lookup[p.ref_unit[1]].qty
    ELSE IF p.pkg_name = "Exam Centre" THEN exam_centre_cost
    ELSE IF p.pkg_name = "Entire Early Years Wing" THEN ey_wing_cost
    ELSE IF p.pkg_name = "Complete SEN Suite" THEN sen_suite_cost
    ELSE 0

PackageCost(p, lookup) ==
    IF Truthy(p.ref_unit) /\ p.ref_unit[1] \in DOMAIN lookup
    THEN lookup[p.ref_unit[1]].unit_cost_sar * p.ref_qty[1]
    ELSE IF p.pkg_name = "Exam Centre" THEN exam_centre_cost
    ELSE IF p.pkg_name = "Entire Early Years Wing" THEN ey_wing_cost
    ELSE IF p.pkg_name = "Complete SEN Suite" THEN sen_suite_cost
    ELSE 0

\* Sheet 2, one item of one tier
Sheet2Package ==
    /\ wpc = "sheet2" /\ i <= Len(packages)
    /\ LET p == packages[i]
           pkg_cost == PackageCost(p, unit_lookup)
       IN  pkg_rows' = Append(pkg_rows,
               [tier_name |-> p.tier_name, pkg_name |-> p.pkg_name,
                ref_unit |-> p.ref_unit,
                pkg_cost |-> pkg_cost, pkg_usd |-> usd(pkg_cost)])
    /\ i' = i + 1
    /\ UNCHANGED <<svars, wpc, units, packages, first_run, item_num, unit_lookup,
                   grand_total_sar, rows, wfold, wsummary>>

\* Sheet 2 is finished; sheet 3 sets up the category fold
Sheet2Done ==
    /\ wpc = "sheet2" /\ i > Len(packages)
    /\ wpc' = "sheet3" /\ i' = 1
    /\ category_totals' = <<>> /\ current_cat' = None
    /\ cat_units' = 0 /\ cat_net' = FZero /\ cat_cost' = 0
    /\ UNCHANGED <<svars, units, packages, first_run, wlocals, wsummary>>

\* Sheet3Header with the bug "the running sums are not reset at a header"
Sheet3HeaderNoReset ==
    /\ wpc = "sheet3" /\ i <= Len(units)
    /\ units[i].qty = None
    /\ category_totals' =
           IF Truthy(current_cat)
           THEN Append(category_totals,
                    [name |-> current_cat[1], units |-> cat_units,
                     net |-> cat_net, cost |-> cat_cost])
           ELSE category_totals
    /\ current_cat' = Some(units[i].name)
    /\ i' = i + 1
    /\ UNCHANGED <<svars, wpc, units, packages, first_run, wlocals, wsummary,
                   cat_units, cat_net, cat_cost>>

\* Sheet 3, "for entry in UNITS", a category header row
Sheet3Header ==
    /\ wpc = "sheet3" /\ i <= Len(units)
    /\ units[i].qty = None
    /\ category_totals' =
           IF Truthy(current_cat)
           THEN Append(category_totals,
                    [name |-> current_cat[1], units |-> cat_units,
                     net |-> cat_net, cost |-> cat_cost])
           ELSE category_totals
    /\ current_cat' = Some(units[i].name)
    /\ cat_units' = 0 /\ cat_net' = FZero /\ cat_cost' = 0
    /\ i' = i + 1
    /\ UNCHANGED <<svars, wpc, units, packages, first_run, wlocals, wsummary>>

\* Sheet 3, "for entry in UNITS", a unit row
Sheet3Unit ==
    /\ wpc = "sheet3" /\ i <= Len(units)
    /\ units[i].qty # None
    /\ LET qty == units[i].qty[1]
           net_m2 == units[i].net_m2[1]
       IN  /\ cat_units' = cat_units + qty
           /\ cat_net' = FAdd(cat_net, FMul(net_m2, Num(qty)))
           /\ cat_cost' = cat_cost + cost_per_unit(net_m2, units[i].gf[1]) * qty
    /\ i' = i + 1
    /\ UNCHANGED <<svars, wpc, units, packages, first_run, wlocals, category_totals,
                   current_cat, wsummary>>

\* Sheet 3, after the loop: "Don't forget last category"
Sheet3Last ==
    /\ wpc = "sheet3" /\ i > Len(units)
    /\ category_totals' =
           IF Truthy(current_cat)
           THEN Append(category_totals,
                    [name |-> current_cat[1], units |-> cat_units,
                     net |-> cat_net, cost |-> cat_cost])
           ELSE category_totals
    /\ wpc' = "summary"
    /\ UNCHANGED <<svars, units, packages, first_run, i, wlocals, current_cat, cat_units,
                   cat_net, cat_cost, wsummary>>

RECURSIVE SumCost(_)
SumCost(cs) == IF cs = <<>> THEN 0 ELSE cs[1].cost + SumCost(Tail(cs))

\* RoundTenths with the bug "the digits argument is dropped": round(x)
RoundTenthsDropped(x) == FromInt(PyRound(x))

\* round(x, 1): the float nearest to x rounded to one decimal, ties to even
RoundTenths(x) ==
    Lit(PyRound(ExactMul(x, Num(10))), 10)

\* Percent with the bug "the factor 100 is left out"
PercentFraction(cost, whole) ==
    IF whole = 0 THEN FZero ELSE FDiv(Num(cost), Num(whole))

\* pct = cost / overall_total * 100 if overall_total else 0
Percent(cost, whole) ==
    IF whole = 0 THEN FZero
    ELSE FMul(FDiv(Num(cost), Num(whole)), Num(100))

\* values = [idx, cat_name, units, round(net, 0), cost, usd(cost), round(pct, 1)];
\* round(net, 0) is a float with an integral value, kept as that integer
SummaryRow(idx, c, whole) ==
    [idx |-> idx, name |-> c.name, units |-> c.units, net |-> PyRound(c.net),
     cost |-> c.cost, cost_usd |-> usd(c.cost),
     pct |-> RoundTenths(Percent(c.cost, whole))]

\* sum(c[2] for c in category_totals)
RECURSIVE SumNetOf(_, _)
SumNetOf(cs, n) ==
    IF n = 0 THEN FZero ELSE FAdd(SumNetOf(cs, n - 1), cs[n].net)

\* overall_total = sum(c[3] for c in category_totals); one summary row per
\* category and the grand total row are written and the workbook is saved
Sheet3Summary ==
    /\ wpc = "summary"
    /\ overall_total' = SumCost(category_totals)
    /\ summary_rows' = [k \in 1 .. Len(category_totals) |->
                           SummaryRow(k, category_totals[k], overall_total')]
    /\ summary_net' = SumNetOf(category_totals, Len(category_totals))
    /\ wpc' = "done"
    /\ UNCHANGED <<svars, units, packages, first_run, i, wlocals, wfold>>

\* the GRAND TOTAL row of sheet 3: sum(c[2] ...), overall_total,
\* usd(overall_total) and the text "100%"
GrandTotalRow ==
    [net |-> summary_net, cost |-> overall_total,
     cost_usd |-> usd(overall_total), pct |-> "100%"]

\* what a run of build_workbook wrote and printed
WorkbookOutput ==
    [rows |-> rows, pkg_rows |-> pkg_rows, category_totals |-> category_totals,
     summary_rows |-> summary_rows, summary_net |-> summary_net,
     grand_total_sar |-> grand_total_sar, overall_total |-> overall_total]

\* Rerun with the bug "the counters of sheet 1 outlive the call"
RerunKeepTotals ==
    /\ wpc = "done" /\ first_run = None
    /\ first_run' = Some(WorkbookOutput)
    /\ wpc' = "sheet1" /\ i' = 1
    /\ unit_lookup' = EmptyDict
    /\ rows' = <<>> /\ pkg_rows' = <<>>
    /\ UNCHANGED <<svars, units, packages, item_num, grand_total_sar, wfold,
                   wsummary>>

\* build_workbook() is called a second time on the same UNITS and PACKAGES:
\* a new Workbook is made and item_num, unit_lookup and grand_total_sar are
\* locals that the call initialises (the fold's locals are initialised where
\* sheet 3 starts)
Rerun ==
    /\ wpc = "done" /\ first_run = None
    /\ first_run' = Some(WorkbookOutput)
    /\ wpc' = "sheet1" /\ i' = 1
    /\ item_num' = 0 /\ unit_lookup' = EmptyDict /\ grand_total_sar' = 0
    /\ rows' = <<>> /\ pkg_rows' = <<>>
    /\ UNCHANGED <<svars, units, packages, wfold, wsummary>>

----------------------------------------------------------------------------
(* Specifications                                                          *)

ScenarioInit ==
    /\ spc = "call" /\ total \in Totals /\ v = None /\ ret = None
    /\ pending = <<>> /\ scenarios = EmptyDict
    /\ WorkbookIdle

ScenarioNext == ComputeScenario

ScenarioSpec == ScenarioInit /\ [][ScenarioNext]_vars

\* The catalogs tried: the shipped UNITS, and every catalog of at most
\* MaxCatalogLen rows from RowPool, which holds two header rows, two shipped
\* unit rows, a unit row with quantity 0 and one with a negative area.
MaxCatalogLen == 3

RowPool ==
    { Marker("CLASSROOMS & TEACHING SPACES"),
      Marker("EXAM CENTRE"),
      Unit("Standard Classroom (Grades 1-12)", 249, Lit(4312, 100), GF_ACADEMIC),
      Unit("Primary Science Lab", 13, Lit(601, 10), GF_HIGH_SERVICE),
      Unit("Candidate Holding Room", 0, Lit(600, 10), GF_ACADEMIC),
      Unit("Exam Hall (300 candidates)", 1, Lit(-7500, 10), GF_ACADEMIC) }

Catalogs ==
    {UNITS} \cup UNION {[1 .. n -> RowPool] : n \in 1 .. MaxCatalogLen}

WorkbookInit ==
    /\ wpc = "sheet1" /\ units \in Catalogs /\ packages = PACKAGES /\ i = 1
    /\ item_num = 0 /\ unit_lookup = EmptyDict /\ grand_total_sar = 0
    /\ rows = <<>> /\ pkg_rows = <<>>
    /\ category_totals = <<>> /\ current_cat = None
    /\ cat_units = 0 /\ cat_net = FZero /\ cat_cost = 0
    /\ overall_total = 0 /\ summary_rows = <<>> /\ summary_net = FZero
    /\ first_run = None
    /\ ScenarioIdle

WorkbookNext ==
    \/ Sheet1Header
    \/ Sheet1Unit
    \/ Sheet1Done
    \/ Sheet2Package
    \/ Sheet2Done
    \/ Sheet3Header
    \/ Sheet3Unit
    \/ Sheet3Last
    \/ Sheet3Summary

WorkbookSpec == WorkbookInit /\ [][WorkbookNext]_vars

\* build_workbook run twice on the same catalog
RerunNext == WorkbookNext \/ Rerun

RerunSpec == WorkbookInit /\ [][RerunNext]_vars

\* build_ambassador_deck.py at module level: three scenarios are computed
\* one after the other and kept; the deck ships 5500, 6000 and 7000, and the
\* other enrolments of ScenarioTotals, two small neighbouring ones among
\* them, are tried in their place too.
ScenarioTotals == {162, 163, 5000, 5500, 6000, 6500, 7000, 7500}

ScenarioLists ==
    {<<a, b, c>> : a \in ScenarioTotals, b \in ScenarioTotals, c \in ScenarioTotals}

DeckInit ==
    /\ spc = "idle" /\ total = 0 /\ v = None /\ ret = None
    /\ pending \in {l \in ScenarioLists : l[1] < l[2] /\ l[2] < l[3]}
    /\ scenarios = EmptyDict
    /\ WorkbookIdle

DeckNext ==
    \/ CallScenario
    \/ ComputeScenario
    \/ AssignScenario

DeckSpec == DeckInit /\ [][DeckNext]_vars

\* the two scripts together
Init == ScenarioInit \/ WorkbookInit \/ DeckInit
Next == ScenarioNext \/ RerunNext \/ DeckNext
Spec == Init /\ [][Next]_vars

----------------------------------------------------------------------------
(* Claims about compute_scenario (ScenarioSpec)                            *)

Returned == spc = "returned"

\* C1: for every positive total_students the four segment student counts of
\* the returned dict (ey, pri, inter, sec) sum exactly to total_students.
C1_SegmentsSumToTotal ==
    (Returned /\ total > 0) =>
        ret.ey + ret.pri + ret.inter + ret.sec = total

\* a returned scenario in which Secondary is not the rounded 14.7% share:
\* the remainder has absorbed the rounding drift of the other three
C1_Witness ==
    /\ Returned /\ total > 0
    /\ ret.sec # Share(total, Lit(147, 1000))

\* C2: compute_scenario(7000) returns Early Years 1064, Primary 2177,
\* Intermediate 2730 and Secondary 1029.
C2_Scenario7000 ==
    (Returned /\ total = 7000) =>
        /\ ret.ey = 1064 /\ ret.pri = 2177
        /\ ret.inter = 2730 /\ ret.sec = 1029

C2_Witness == Returned /\ total = 7000 /\ ret.ey + ret.pri + ret.inter + ret.sec = 7000

\* the least integer c with c * den >= num, for den > 0: the exact ceiling
\* of num / den
ExactCeil(num, den) ==
    IF num % den = 0 THEN num \div den ELSE (num \div den) + 1

\* cls is ceil(n / cap * 1.08) as the program evaluates it in binary64, and
\* in exact arithmetic it is the ceiling of n * 108 / (cap * 100) or, where a
\* float product overshoots an integer, one above it
IsClassroomCount(cls, n, cap) ==
    /\ cls = PyCeil(FMul(FDiv(Num(n), Num(cap)), Lit(108, 100)))
    /\ cls >= ExactCeil(n * 108, cap * 100)
    /\ cls <= ExactCeil(n * 108, cap * 100) + 1

\* C3: for every positive total_students each segment's classroom count is
\* ceil(segment_students / capacity * 1.08), capacity 22 for Early Years and
\* 25 for Primary, Intermediate and Secondary, and total_cls is their sum.
C3_ClassroomCounts ==
    (Returned /\ total > 0) =>
        /\ IsClassroomCount(ret.ey_cls, ret.ey, 22)
        /\ IsClassroomCount(ret.pri_cls, ret.pri, 25)
        /\ IsClassroomCount(ret.inter_cls, ret.inter, 25)
        /\ IsClassroomCount(ret.sec_cls, ret.sec, 25)
        /\ ret.total_cls = ret.ey_cls + ret.pri_cls + ret.inter_cls + ret.sec_cls

\* a returned scenario whose buffered counts are all above the unbuffered
\* ceil(students / capacity), and whose Early Years count differs from the
\* count at capacity 25
C3_Witness ==
    /\ Returned /\ total > 0
    /\ ret.ey_cls > ExactCeil(ret.ey, 22)
    /\ ret.pri_cls > ExactCeil(ret.pri, 25)
    /\ ret.inter_cls > ExactCeil(ret.inter, 25)
    /\ ret.sec_cls > ExactCeil(ret.sec, 25)
    /\ ret.ey_cls # ExactCeil(ret.ey * 108, 2500)

\* the net sub-totals of the three grossing categories
AcademicNetOf(w) ==
    FAdd(FAdd(FAdd(FAdd(FAdd(w.teaching_net, Num(w.labs_net)), Num(w.ict_net)),
                   Num(w.sen_net)), Num(w.admin_net)), Num(w.staff_net))
HighServiceNetOf(w) == w.food_net + w.sports_net + w.audit_commons_net
OpsNetOf(w) == w.it_ops_net

\* teaching_net in exact arithmetic, in units of 0.01 m2
ExactTeaching100(w) ==
    5500 * w.ey_cls + 4312 * (w.pri_cls + w.inter_cls + w.sec_cls)

\* the per-category gross in exact arithmetic, in units of 0.0001 m2
ExactGross10000(w) ==
    145 * (ExactTeaching100(w)
           + 100 * (w.labs_net + w.ict_net + w.sen_net + w.admin_net + w.staff_net))
    + 165 * 100 * HighServiceNetOf(w)
    + 155 * 100 * OpsNetOf(w)

Abs(x) == IF x < 0 THEN -x ELSE x

C9_NonPositiveRejected == Returned => total > 0

----------------------------------------------------------------------------
(* Claims about build_workbook (WorkbookSpec)                              *)

IsHeader(e) == e.qty = None

\* the unit rows of a catalog, in order
UnitEntries(us) == SelectSeq(us, LAMBDA e : ~IsHeader(e))

\* C5: for every priced catalog entry total_cost_sar is
\* round(net_area * grossing_factor * cost_per_gross_area) * quantity, the
\* unit cost rounded before it is multiplied; for at least one entry of the
\* shipped catalog that differs from
\* round(net_area * grossing_factor * cost_per_gross_area * quantity).
C5_RoundBeforeMultiply ==
    /\ \A k \in 1 .. Len(rows) :
           LET e == UnitEntries(units)[k]
           IN  /\ rows[k].unit_cost_sar =
                      PyRound(FMul(FMul(e.net_m2[1], e.gf[1]), COST_PER_BUA_M2))
               /\ rows[k].total_sar = rows[k].unit_cost_sar * e.qty[1]
    /\ (wpc = "done" /\ units = UNITS) =>
           \E k \in 1 .. Len(rows) :
               LET e == UnitEntries(units)[k]
               IN  rows[k].total_sar #
                       PyRound(FMul(FMul(FMul(e.net_m2[1], e.gf[1]),
                                         COST_PER_BUA_M2), Num(e.qty[1])))

\* the unit sheet of the shipped catalog is complete and the first row, the
\* 249 standard classrooms, costs more in total than the rounded product
C5_Witness ==
    /\ wpc = "done" /\ units = UNITS /\ Len(rows) = Len(UnitEntries(UNITS))
    /\ rows[1].qty = 249
    /\ rows[1].total_sar >
           PyRound(FMul(FMul(FMul(UNITS[2].net_m2[1], UNITS[2].gf[1]),
                             COST_PER_BUA_M2), Num(249)))

\* C6: for every catalog, whether or not it begins with a header row, the
\* category aggregate costs sum to the grand total of all unit total costs.
C6_CategoriesSumToGrandTotal ==
    wpc = "done" => overall_total = grand_total_sar

\* the positions of the header rows among the first n rows, ascending
HeaderPositions(us, n) ==
    SelectSeq([p \in 1 .. n |-> p], LAMBDA p : IsHeader(us[p]))

RECURSIVE SumQty(_, _, _)
SumQty(us, lo, hi) ==
    IF hi < lo THEN 0 ELSE SumQty(us, lo, hi - 1) + us[hi].qty[1]

RECURSIVE SumUnitCost(_, _, _)
SumUnitCost(us, lo, hi) ==
    IF hi < lo THEN 0
    ELSE SumUnitCost(us, lo, hi - 1)
         + PyRound(FMul(FMul(us[hi].net_m2[1], us[hi].gf[1]), COST_PER_BUA_M2))
           * us[hi].qty[1]

RECURSIVE SumNet(_, _, _)
SumNet(us, lo, hi) ==
    IF hi < lo THEN FZero
    ELSE FAdd(SumNet(us, lo, hi - 1), FMul(us[hi].net_m2[1], Num(us[hi].qty[1])))

\* the running sums (or an emitted aggregate) hold exactly rows lo .. hi
HoldsRows(us, lo, hi, n_units, net, cost) ==
    /\ n_units = SumQty(us, lo, hi)
    /\ FCmp(net, SumNet(us, lo, hi)) = 0
    /\ cost = SumUnitCost(us, lo, hi)

\* C7: the category fold is positional: each unit row adds its quantity,
\* net_area * quantity and rounded unit cost * quantity to the aggregate
\* opened by the nearest preceding header row and to no other, and the
\* aggregates are emitted one per header row in catalog order.
C7_PositionalFold ==
    /\ wpc = "sheet3" =>
           LET hs   == HeaderPositions(units, i - 1)
               last == IF hs = <<>> THEN 0 ELSE hs[Len(hs)]
           IN  /\ Len(category_totals) = (IF hs = <<>> THEN 0 ELSE Len(hs) - 1)
               /\ \A k \in 1 .. Len(category_totals) :
                      /\ category_totals[k].name = units[hs[k]].name
                      /\ HoldsRows(units, hs[k] + 1, hs[k + 1] - 1,
                                   category_totals[k].units,
                                   category_totals[k].net,
                                   category_totals[k].cost)
               /\ current_cat = (IF last = 0 THEN None ELSE Some(units[last].name))
               /\ HoldsRows(units, last + 1, i - 1, cat_units, cat_net, cat_cost)
    /\ wpc \in {"summary", "done"} =>
           LET hs == HeaderPositions(units, Len(units))
           IN  /\ Len(category_totals) = Len(hs)
               /\ \A k \in 1 .. Len(hs) :
                      /\ category_totals[k].name = units[hs[k]].name
                      /\ HoldsRows(units, hs[k] + 1,
                                   IF k < Len(hs) THEN hs[k + 1] - 1 ELSE Len(units),
                                   category_totals[k].units,
                                   category_totals[k].net,
                                   category_totals[k].cost)

\* a finished fold with two aggregates that both hold unit rows
C7_Witness ==
    /\ wpc = "done" /\ Len(category_totals) >= 2
    /\ category_totals[1].units > 0 /\ category_totals[2].units > 0
    /\ category_totals[1].cost # category_totals[2].cost

\* C8: pricing a package whose referenced unit name is not in the catalog
\* fails fast: no row is written to the package sheet for such a package.
C8_UnknownReferenceFailsFast ==
    \A k \in 1 .. Len(pkg_rows) :
        Truthy(pkg_rows[k].ref_unit) =>
            pkg_rows[k].ref_unit[1] \in DOMAIN unit_lookup

\* C10: a unit row with non-positive net area or quantity fails validation:
\* no zero or negative unit cost or total cost is written to the unit sheet
\* or added to the grand total.
C10_NonPositiveRowsRejected ==
    /\ \A k \in 1 .. Len(rows) :
           rows[k].unit_cost_sar > 0 /\ rows[k].total_sar > 0
    /\ \A k \in 1 .. Len(rows) : grand_total_sar >= rows[k].total_sar

\* x / 3.75 = 4x / 15 rounded to the nearest integer, for x >= 0 (4x / 15 is
\* never half-way between two integers)
ExactUsd(x) ==
    IF 2 * ((4 * x) % 15) > 15 THEN (4 * x) \div 15 + 1 ELSE (4 * x) \div 15

\* usd of a non-negative SAR amount is round(x / 3.75), in binary64 and exactly
IsUsd(y, x) ==
    x >= 0 => /\ y = PyRound(FDiv(Num(x), Lit(375, 100)))
              /\ y = ExactUsd(x)

\* C11: usd(x) = round(x / 3.75) for every non-negative integer SAR amount,
\* usd(0) = 0, and the same conversion gives the USD figure of unit costs,
\* row totals, package costs, category totals and the grand total.
C11_UsdConversion ==
    /\ \A k \in 1 .. Len(rows) :
           /\ IsUsd(rows[k].unit_cost_usd, rows[k].unit_cost_sar)
           /\ IsUsd(rows[k].total_usd, rows[k].total_sar)
           /\ rows[k].total_sar = 0 => rows[k].total_usd = 0
    /\ \A k \in 1 .. Len(pkg_rows) :
           IsUsd(pkg_rows[k].pkg_usd, pkg_rows[k].pkg_cost)
    /\ \A k \in 1 .. Len(category_totals) :
           IsUsd(usd(category_totals[k].cost), category_totals[k].cost)
    /\ IsUsd(usd(grand_total_sar), grand_total_sar)
    /\ IsUsd(usd(overall_total), overall_total)

\* the shipped workbook is complete: positive amounts were converted on all
\* three sheets
C11_Witness ==
    /\ wpc = "done" /\ units = UNITS
    /\ rows[1].total_sar > 0 /\ rows[1].total_usd > 0
    /\ pkg_rows[1].pkg_cost > 0 /\ pkg_rows[1].pkg_usd > 0
    /\ overall_total > 0 /\ usd(overall_total) > 0

\* round(0.80 * baseline)
FloorOf(baseline) == PyRound(FMul(F_0_8, Num(baseline)))

\* C12: for every positive total each of the seven support and shared areas
\* (SEN, admin, staff, IT/ops, food, sports, auditorium/commons) is at least
\* round(0.80 * its 7,000-student baseline).
C12_AllAreasFloored ==
    (Returned /\ total > 0) =>
        /\ v.sen_net >= FloorOf(736)
        /\ v.admin_net >= FloorOf(672)
        /\ v.staff_net >= FloorOf(950)
        /\ v.it_ops_net >= FloorOf(641)
        /\ v.food_net >= FloorOf(3380)
        /\ v.sports_net >= FloorOf(3981)
        /\ v.audit_commons_net >= FloorOf(4070)

\* round(baseline * max(total / 7000, floor)), the larger factor chosen by
\* comparing the two
FlooredArea(baseline, t, floor) ==
    PyRound(FMul(Num(baseline),
                 IF FCmp(FDiv(Num(t), Num(7000)), floor) < 0
                 THEN floor ELSE FDiv(Num(t), Num(7000))))

\* C16: admin and IT/ops net areas are round(baseline * max(total / 7000,
\* 0.85)) and sports and auditorium/commons net areas are round(baseline *
\* max(total / 7000, 0.80)); so for every positive total <= 5,950 admin is
\* 571 and IT/ops 545, and for every positive total <= 5,600 sports is 3,185
\* and auditorium/commons 3,256.
C16_FlooredAreas ==
    (Returned /\ total > 0) =>
        /\ v.admin_net = FlooredArea(672, total, Lit(85, 100))
        /\ v.it_ops_net = FlooredArea(641, total, Lit(85, 100))
        /\ v.sports_net = FlooredArea(3981, total, Lit(80, 100))
        /\ v.audit_commons_net = FlooredArea(4070, total, Lit(80, 100))
        /\ total <= 5950 => v.admin_net = 571 /\ v.it_ops_net = 545
        /\ total <= 5600 => v.sports_net = 3185 /\ v.audit_commons_net = 3256

\* the largest total at which the 0.80 floor still holds sports and
\* auditorium/commons, with the 0.85 floor holding admin and IT/ops
C16_Witness ==
    /\ Returned /\ total = 5600
    /\ v.admin_net = 571 /\ v.it_ops_net = 545
    /\ v.sports_net = 3185 /\ v.audit_commons_net = 3256
    /\ v.sen_net = Scaled(736, Scale(5600))

\* cls divided by per, then doubled, then rounded up
DoubledThenCeiled(cls, per) == PyCeil(FMul(FDiv(Num(cls), Num(per)), Num(2)))

\* C17: for every positive total the science-lab count is the Primary +
\* Intermediate + Secondary classroom count divided by 10, then doubled, then
\* rounded up, the ICT-lab count the same with 15; the reported labs net
\* area is 65 * (science labs + ICT labs), which is 65 * the room count of the
\* row "Science + ICT Labs".
C17_LabCounts ==
    (Returned /\ total > 0) =>
        /\ v.n_labs = DoubledThenCeiled(ret.pri_cls + ret.inter_cls + ret.sec_cls, 10)
        /\ v.n_ict = DoubledThenCeiled(ret.pri_cls + ret.inter_cls + ret.sec_cls, 15)
        /\ ret.labs_net = 65 * (v.n_labs + v.n_ict)
        /\ ret.labs_net = 65 * LabRooms(ret)

\* C18: in every returned dict the reported total_net is the sum of the four
\* reported parts teaching_net + labs_net + support_net + shared_net, although
\* teaching_net and total_net are each rounded on their own.
C18_TotalNetIsSumOfParts ==
    Returned =>
        ret.total_net =
            ret.teaching_net + ret.labs_net + ret.support_net + ret.shared_net

\* a returned dict whose teaching_net and total_net were both changed by
\* their rounding: neither float was integral
C18_Witness ==
    /\ Returned /\ total > 0
    /\ FCmp(v.teaching_net, Num(ret.teaching_net)) # 0
    /\ FCmp(v.total_net, Num(ret.total_net)) # 0
    /\ ret.labs_net > 0 /\ ret.support_net > 0 /\ ret.shared_net > 0

\* C19: for every positive total cost_low = round(total_gross * 4580 / 1e6)
\* and cost_high = round(total_gross * 4960 / 1e6), both from the unrounded
\* gross area, and cost_low <= cost_high.
C19_CostRange ==
    (Returned /\ total > 0) =>
        /\ ret.cost_low = PyRound(FDiv(FMul(v.total_gross, Num(4580)), Num(1000000)))
        /\ ret.cost_high = PyRound(FDiv(FMul(v.total_gross, Num(4960)), Num(1000000)))
        /\ ret.cost_low <= ret.cost_high

\* a returned dict whose gross area is not integral and whose two costs
\* differ
C19_Witness ==
    /\ Returned /\ total > 0
    /\ FCmp(v.total_gross, Num(ret.total_gross)) # 0
    /\ ret.cost_low > 0 /\ ret.cost_low < ret.cost_high

\* round((total_gross / 3) / 25000 * 100): the coverage from the exact third
ExactThirdCoverage(total_gross) ==
    PyRound(FMul(FDiv(FDiv(total_gross, Num(3)), Num(25000)), Num(100)))

\* C20: for every positive total the footprint is total_gross / 3 and the
\* reported coverage is round((total_gross / 3) / 25000 * 100), the coverage
\* of the exact third of the gross area over the 25,000 m2 plot.
C20_CoverageFromExactThird ==
    (Returned /\ total > 0) =>
        /\ FCmp(Num(ret.footprint), FDiv(v.total_gross, Num(3))) = 0
        /\ ret.coverage = ExactThirdCoverage(v.total_gross)

\* C26: the scenario model reproduces the adopted mid-institutional baseline
\* at the design target: compute_scenario(7000) yields cost_low = 240 and
\* cost_high = 260 (SAR million), the range the deck quotes for the
\* 7,000-student campus.
C26_BaselineAt7000 ==
    (Returned /\ total = 7000) =>
        /\ ret.cost_low = BaselineRange.low
        /\ ret.cost_high = BaselineRange.high

\* C27: for every positive total the Secondary remainder is non-negative:
\* the independently rounded Early Years, Primary and Intermediate shares
\* never allocate more students than the total.
C27_SecondaryNonNegative ==
    (Returned /\ total > 0) =>
        /\ ret.sec >= 0
        /\ ret.ey + ret.pri + ret.inter <= total

\* a returned scenario in which the three rounded shares use up the whole
\* total, two of them rounded up, and Secondary is left with nobody
C27_Witness ==
    /\ Returned /\ total > 0 /\ ret.sec = 0
    /\ ret.ey + ret.pri + ret.inter = total
    /\ FCmp(Num(ret.pri), FMul(Num(total), F_0_311)) > 0
    /\ FCmp(Num(ret.inter), FMul(Num(total), F_0_390)) > 0

\* C29: for every positive total and every segment the classrooms provided
\* hold the segment with the 8% buffer: classrooms * capacity >= 1.08 *
\* segment_students (capacity 22 for Early Years, 25 otherwise), so no
\* classroom has to hold more than its capacity, at most 25 students.
C29_BufferedCapacity ==
    (Returned /\ total > 0) =>
        /\ ret.ey_cls * 22 * 100 >= 108 * ret.ey
        /\ ret.pri_cls * 25 * 100 >= 108 * ret.pri
        /\ ret.inter_cls * 25 * 100 >= 108 * ret.inter
        /\ ret.sec_cls * 25 * 100 >= 108 * ret.sec
        /\ ret.ey <= ret.ey_cls * 22 /\ ret.pri <= ret.pri_cls * 25
        /\ ret.inter <= ret.inter_cls * 25 /\ ret.sec <= ret.sec_cls * 25

\* a returned scenario whose Primary classrooms hold exactly 1.08 times the
\* Primary students: the buffer is met with nothing to spare
C29_Witness ==
    /\ Returned /\ total > 0 /\ ret.pri > 0
    /\ ret.pri_cls * 25 * 100 = 108 * ret.pri
    /\ ret.sec_cls * 25 * 100 > 108 * ret.sec

\* C30: compute_scenario(5500) returns Early Years 836, Primary 1710,
\* Intermediate 2145 and Secondary 809: the Primary share 5,500 * 0.311 is
\* exactly the tie 1,710.5 and is rounded half-to-even to 1,710, so the
\* Secondary remainder is 809, not the 808 of rounding half up.
C30_Scenario5500 ==
    (Returned /\ total = 5500) =>
        /\ ret.ey = 836 /\ ret.pri = 1710
        /\ ret.inter = 2145 /\ ret.sec = 809
        /\ FCmp(FMul(Num(5500), F_0_311), Lit(17105, 10)) = 0
        /\ ret.sec # 5500 - 836 - 1711 - 2145

\* the scenario of 5,500 students is returned and its Primary product is a
\* float halfway between 1,710 and 1,711
C30_Witness ==
    /\ Returned /\ total = 5500 /\ ret.pri = 1710
    /\ FCmp(ExactMul(FMul(Num(5500), F_0_311), Num(2)), Num(3421)) = 0

----------------------------------------------------------------------------
(* Claims about the three scenarios of the deck (DeckSpec)                 *)

Shipped == {5500, 6000, 7000}

Gross(t) == scenarios[t].locals.total_gross
Net(t) == scenarios[t].locals.total_net

\* the blended factors total_gross / total_net of scenarios a and b are equal
SameBlendedFactor(a, b) ==
    FCmp(ExactMul(Gross(a), Net(b)), ExactMul(Gross(b), Net(a))) = 0

\* Gross(a) / Net(a) * Net(b) rounds to the reported total gross of b: it
\* lies within one half of it
Reproduces(a, b) ==
    LET y2 == ExactMul(ExactMul(Num(2), Gross(a)), Net(b))
        G  == scenarios[b].result.total_gross
    IN  /\ FCmp(y2, ExactMul(Num(2 * G - 1), Net(a))) >= 0
        /\ FCmp(y2, ExactMul(Num(2 * G + 1), Net(a))) <= 0

\* C13: over the scenarios 5,500 / 6,000 / 7,000 the ratio
\* total_gross / total_net is not the same for all three, and the blended
\* factor of one scenario applied to the total net of another does not
\* reproduce that scenario's total gross.
C13_NoBlendedFactor ==
    Shipped \subseteq DOMAIN scenarios =>
        /\ ~(SameBlendedFactor(5500, 6000) /\ SameBlendedFactor(6000, 7000))
        /\ \A a \in Shipped : \A b \in Shipped \ {a} : ~Reproduces(a, b)

\* the three shipped scenarios have been computed and kept
C13_Witness ==
    /\ DOMAIN scenarios = Shipped /\ spc = "idle" /\ pending = <<>>
    /\ scenarios[5500].result.total_gross < scenarios[6000].result.total_gross
    /\ scenarios[6000].result.total_gross < scenarios[7000].result.total_gross

----------------------------------------------------------------------------
(* Claims about the deck's data against the workbook (WorkbookSpec)        *)

\* C15: the donor deck matches the workbook: once the shipped UNITS are
\* priced and folded, every row of the deck's CATEGORIES (unit count, total
\* net area rounded to an integer, total cost in SAR, percentage of budget to
\* one decimal) equals the summary row of the same position, and
\* GRAND_TOTAL_SAR / GRAND_TOTAL_USD equal the workbook's grand total, the
\* fold's overall total and its conversion to USD.
C15_DeckMatchesWorkbook ==
    (wpc = "done" /\ units = UNITS) =>
        /\ Len(summary_rows) = Len(CATEGORIES)
        /\ \A k \in 1 .. Len(CATEGORIES) :
              /\ summary_rows[k].units = CATEGORIES[k].units
              /\ summary_rows[k].net = CATEGORIES[k].net
              /\ summary_rows[k].cost = CATEGORIES[k].cost
              /\ FCmp(summary_rows[k].pct, CATEGORIES[k].pct) = 0
        /\ grand_total_sar = GRAND_TOTAL_SAR
        /\ overall_total = GRAND_TOTAL_SAR
        /\ usd(overall_total) = GRAND_TOTAL_USD

\* the shipped catalog has been folded into its fifteen summary rows
C15_Witness ==
    /\ wpc = "done" /\ units = UNITS
    /\ Len(summary_rows) = 15 /\ overall_total > 0
    /\ FCmp(summary_rows[1].pct, FZero) > 0

----------------------------------------------------------------------------
(* Claims about scenarios of different enrolments (DeckSpec)               *)

\* C28: total classrooms are monotone in enrollment: for all positive totals
\* a <= b, compute_scenario(a).total_cls <= compute_scenario(b).total_cls.
C28_ClassroomsMonotone ==
    \A a \in DOMAIN scenarios : \A b \in DOMAIN scenarios :
        (0 < a /\ a <= b) =>
            scenarios[a].result.total_cls <= scenarios[b].result.total_cls

----------------------------------------------------------------------------
(* Claims about the packages and the category summary (WorkbookSpec)       *)

\* C21: a simple package (one that references a catalog entry) costs that
\* entry's rounded unit cost times the package's own override quantity,
\* whatever the entry's catalog quantity; "Classroom Block (10 rooms)" costs
\* 10 times the Standard Classroom unit cost, not 249 times.  (The entry is the last row of sheet 1 that carries
\* the referenced name, the one unit_lookup holds.)
C21_SimplePackageCost ==
    /\ \A k \in 1 .. Len(pkg_rows) :
           Truthy(packages[k].ref_unit) =>
               \A r \in 1 .. Len(rows) :
                   (/\ rows[r].name = packages[k].ref_unit[1]
                    /\ \A j \in (r + 1) .. Len(rows) :
                           rows[j].name # packages[k].ref_unit[1]) =>
                       pkg_rows[k].pkg_cost =
                           rows[r].unit_cost_sar * packages[k].ref_qty[1]
    /\ (/\ Len(pkg_rows) >= 10 /\ rows # <<>>
        /\ rows[1].name = "Standard Classroom (Grades 1-12)") =>
           /\ pkg_rows[10].pkg_name = "Classroom Block (10 rooms)"
           /\ pkg_rows[10].pkg_cost = 10 * rows[1].unit_cost_sar
           /\ rows[1].qty = 249
           /\ pkg_rows[10].pkg_cost # rows[1].qty * rows[1].unit_cost_sar

\* the shipped workbook is written: the block of ten classrooms costs
\* 2,983,020 and the single classroom 298,302
C21_Witness ==
    /\ wpc = "done" /\ units = UNITS /\ Len(pkg_rows) = Len(PACKAGES)
    /\ pkg_rows[10].pkg_cost = 2983020 /\ pkg_rows[1].pkg_cost = 298302
    /\ rows[1].qty = 249

\* C22: each custom-priced package that carries the name of a catalog
\* category costs exactly that category's aggregate: in the shipped workbook
\* the "Exam Centre" package costs what the EXAM CENTRE category costs and
\* the "Complete SEN Suite" package what the SEN & STUDENT WELLBEING category
\* (34 units) costs.
C22_NamedPackagesCostTheirCategory ==
    (wpc = "done" /\ units = UNITS) =>
        \A k \in 1 .. Len(pkg_rows) : \A c \in 1 .. Len(category_totals) :
            /\ (/\ pkg_rows[k].pkg_name = "Exam Centre"
                /\ category_totals[c].name = "EXAM CENTRE") =>
                   pkg_rows[k].pkg_cost = category_totals[c].cost
            /\ (/\ pkg_rows[k].pkg_name = "Complete SEN Suite"
                /\ category_totals[c].name = "SEN & STUDENT WELLBEING") =>
                   /\ pkg_rows[k].pkg_cost = category_totals[c].cost
                   /\ category_totals[c].units = 34

\* C23: every package's computed SAR cost lies within the giving range of
\* the tier it is listed under: Individual Impact Gifts between 50,000 and
\* 500,000, Major Gifts between 500,000 and 5,000,000, Landmark Gifts at
\* 5,000,000 or more (the shipped catalog and packages).
C23_PackagesWithinTier ==
    (wpc = "done" /\ units = UNITS) =>
        \A k \in 1 .. Len(pkg_rows) :
            /\ pkg_rows[k].pkg_cost >= TierRange(pkg_rows[k].tier_name).lo
            /\ TierRange(pkg_rows[k].tier_name).hi # None =>
                   pkg_rows[k].pkg_cost <= TierRange(pkg_rows[k].tier_name).hi[1]

\* the percentages of the first n summary rows, in tenths of a percent,
\* added up
RECURSIVE SumPctTenths(_)
SumPctTenths(n) ==
    IF n = 0 THEN 0
    ELSE SumPctTenths(n - 1) + PyRound(ExactMul(summary_rows[n].pct, Num(10)))

\* C24: each category percentage is cost / overall_total * 100 rounded to
\* one decimal (t tenths with |1000 * cost / overall_total - t| <= 1/2) and
\* the percentages are not re-normalised: for the shipped catalog the fifteen
\* of them do not sum to 100.0, while the grand total row reports "100%".
C24_PercentagesNotNormalised ==
    (wpc = "done" /\ overall_total > 0) =>
        /\ \A k \in 1 .. Len(summary_rows) :
              \E t \in {PyRound(ExactMul(summary_rows[k].pct, Num(10)))} :
                  /\ FCmp(summary_rows[k].pct, Lit(t, 10)) = 0
                  /\ FCmp(ExactMul(Num(2000), Num(summary_rows[k].cost)),
                          ExactMul(Num(2 * t + 1), Num(overall_total))) <= 0
                  /\ FCmp(ExactMul(Num(2000), Num(summary_rows[k].cost)),
                          ExactMul(Num(2 * t - 1), Num(overall_total))) >= 0
        /\ GrandTotalRow.pct = "100%"
        /\ (Len(summary_rows) = 15 /\ units = UNITS) =>
               SumPctTenths(Len(summary_rows)) # 1000

\* the shipped catalog is summarised: its fifteen percentages add up to 99.9
C24_Witness ==
    /\ wpc = "done" /\ Len(summary_rows) = 15 /\ units = UNITS
    /\ SumPctTenths(15) = 999
    /\ GrandTotalRow.cost = GRAND_TOTAL_SAR

\* C25: the five largest categories by cost (Classrooms, Sports & PE,
\* Auditorium, Dining & Food, Science Labs) together account for 82.6% of
\* the budget: their listed percentages, which are those of the summary rows
\* of the shipped workbook, add up to the 82.6 of the headline.
C25_TopFiveShare ==
    (wpc = "done" /\ Len(summary_rows) = 15 /\ units = UNITS) =>
        /\ \A j \in 1 .. Len(top5) :
              /\ FCmp(top5[j].pct, summary_rows[top5[j].category].pct) = 0
              /\ \A c \in 1 .. Len(summary_rows) :
                    c \notin {top5[n].category : n \in 1 .. Len(top5)} =>
                        summary_rows[c].cost < summary_rows[top5[j].category].cost
        /\ PyRound(ExactMul(top5[1].pct, Num(10)))
             + PyRound(ExactMul(top5[2].pct, Num(10)))
             + PyRound(ExactMul(top5[3].pct, Num(10)))
             + PyRound(ExactMul(top5[4].pct, Num(10)))
             + PyRound(ExactMul(top5[5].pct, Num(10)))
           = PyRound(ExactMul(Top5HeadlinePct, Num(10)))

----------------------------------------------------------------------------
(* Claims about two runs of build_workbook (RerunSpec)                     *)

====
